---- MODULE Spec2Model ----
(***************************************************************************)
(* Model of apps/webui/src-tauri/src/lib.rs: the bootstrap function run(). *)
(*                                                                         *)
(* run() builds a tauri::Builder, attaches plugins (five always, one more  *)
(* chosen by a compile-time cfg), registers one setup closure, calls       *)
(* Builder::run and unwraps its Result with expect().  The build target    *)
(* (target_os, debug_assertions) is fixed at compile time, so it is chosen *)
(* in Init and never changes.  The framework is opaque to lib.rs; it is    *)
(* modelled by the interface lib.rs uses: Builder::run takes the builder   *)
(* by value, calls the FnOnce setup closure at most once, and returns a    *)
(* Result that is Ok(()) or an error.                                      *)
(***************************************************************************)
EXTENDS Integers, Sequences, FiniteSets, TLC

VARIABLES
    target_os,            \* cfg(target_os = ...), fixed at compile time
    debug_assertions,     \* cfg(debug_assertions), fixed at compile time
    pc,                   \* position of run(): the line about to execute
    builder,              \* "absent" | "live" | "consumed"
    plugins,              \* sequence of plugins attached to the builder
    setup_closure,        \* "none" | "registered" | "consumed" (FnOnce)
    setup_registrations,  \* number of Builder::setup calls made
    setup_calls,          \* number of times the closure body was entered
    setup_result,         \* "none" | "ok" | "err": value the closure returned
    register_all_calls,   \* number of register_all() invocations
    register_all_result,  \* "none" | "ok" | "err": last register_all() result
    fw,                   \* phase of the framework inside Builder::run
    run_calls,            \* number of Builder::run invocations
    run_result,           \* "none" | "ok" | "err_setup" | "err_runtime"
    events,               \* events processed by the run loop so far
    panic_message         \* message of the panic raised by expect(), or ""

vars == << target_os, debug_assertions, pc, builder, plugins, setup_closure,
           setup_registrations, setup_calls, setup_result, register_all_calls,
           register_all_result, fw, run_calls, run_result, events,
           panic_message >>

----------------------------------------------------------------------------
(* Bounds *)

\* the run loop is followed for at most this many processed events
MaxEvents == 3

----------------------------------------------------------------------------
(* Build targets and compile-time predicates *)

TargetOS == {"linux", "windows", "macos", "android", "ios"}

Range(s) == {s[i] : i \in 1..Len(s)}

\* cfg(windows): the target family is windows
windows(os) == os = "windows"

\* line 10, mutated: the ios arm of any(...) is missing
not_mobile_target_android_only(os) == ~(os = "android")

\* line 10: #[cfg(not(any(target_os = "android", target_os = "ios")))]
not_mobile_target(os) == ~(os = "android" \/ os = "ios")

\* line 15, mutated: the block is compiled without its cfg attribute
mobile_target_uncond(os) == TRUE

\* line 15: #[cfg(any(target_os = "android", target_os = "ios"))]
mobile_target(os) == os = "android" \/ os = "ios"

\* line 22, mutated: all(debug_assertions, windows) loses debug_assertions
register_all_cfg_any_windows(os, dbg) == os = "linux" \/ windows(os)

\* line 22: #[cfg(any(target_os = "linux", all(debug_assertions, windows)))]
register_all_cfg(os, dbg) == os = "linux" \/ (dbg /\ windows(os))

\* line 31: the message given to expect()
ExpectMessage == "error while running tauri application"

----------------------------------------------------------------------------
(* Initial state: run() has been entered, nothing has executed yet *)

Init ==
    /\ target_os \in TargetOS
    /\ debug_assertions \in BOOLEAN
    /\ pc = "L3"
    /\ builder = "absent"
    /\ plugins = << >>
    /\ setup_closure = "none"
    /\ setup_registrations = 0
    /\ setup_calls = 0
    /\ setup_result = "none"
    /\ register_all_calls = 0
    /\ register_all_result = "none"
    /\ fw = "idle"
    /\ run_calls = 0
    /\ run_result = "none"
    /\ events = 0
    /\ panic_message = ""

----------------------------------------------------------------------------
(* run(): lines 3-18, building the plugin list *)

\* Builder::plugin(self, p): appends p to the builder's plugin list
plugin(p, from, to) ==
    /\ pc = from
    /\ builder = "live"
    /\ plugins' = Append(plugins, p)
    /\ pc' = to
    /\ UNCHANGED << target_os, debug_assertions, builder, setup_closure,
                    setup_registrations, setup_calls, setup_result,
                    register_all_calls, register_all_result, fw, run_calls,
                    run_result, events, panic_message >>

\* a line that attaches nothing and falls through to the next one
skip(from, to) ==
    /\ pc = from
    /\ pc' = to
    /\ UNCHANGED << target_os, debug_assertions, builder, plugins,
                    setup_closure, setup_registrations, setup_calls,
                    setup_result, register_all_calls, register_all_result, fw,
                    run_calls, run_result, events, panic_message >>

\* line 3: tauri::Builder::default()
BuilderDefault ==
    /\ pc = "L3"
    /\ builder = "absent"
    /\ builder' = "live"
    /\ plugins' = << >>
    /\ pc' = "L4"
    /\ UNCHANGED << target_os, debug_assertions, setup_closure,
                    setup_registrations, setup_calls, setup_result,
                    register_all_calls, register_all_result, fw, run_calls,
                    run_result, events, panic_message >>

\* line 4
PluginStore == plugin("store", "L4", "L5")

\* line 5
PluginNotification == plugin("notification", "L5", "L6")

\* line 6, mutated: the deep-link plugin is not attached
PluginDeepLink_missing == skip("L6", "L7")

\* line 6
PluginDeepLink == plugin("deep-link", "L6", "L7")

\* line 7, mutated: the HTTP plugin is not attached
PluginHttp_missing == skip("L7", "L8")

\* line 7
PluginHttp == plugin("http", "L7", "L8")

\* line 8
PluginOs == plugin("os", "L8", "L10")

\* lines 10-13: the block exists only in builds where its cfg holds
DesktopBlock ==
    IF not_mobile_target(target_os)
    THEN plugin("opener", "L10", "L15")
    ELSE skip("L10", "L15")

\* lines 15-18: the block exists only in builds where its cfg holds
MobileBlock ==
    IF mobile_target(target_os)
    THEN plugin("barcode-scanner", "L15", "L20")
    ELSE skip("L15", "L20")

----------------------------------------------------------------------------
(* run(): lines 20-31, setup registration, the run call and expect() *)

\* lines 20-21, mutated: the closure is never handed to the builder
setup_missing == skip("L20", "L30")

\* lines 20-21: builder.setup(|app| {...}) stores the closure in the builder
setup ==
    /\ pc = "L20"
    /\ builder = "live"
    /\ setup_closure' = "registered"
    /\ setup_registrations' = setup_registrations + 1
    /\ pc' = "L30"
    /\ UNCHANGED << target_os, debug_assertions, builder, plugins,
                    setup_calls, setup_result, register_all_calls,
                    register_all_result, fw, run_calls, run_result, events,
                    panic_message >>

\* line 30: .run(tauri::generate_context!()) takes the builder by value and
\* hands control to the framework
run ==
    /\ pc = "L30"
    /\ builder = "live"
    /\ builder' = "consumed"
    /\ run_calls' = run_calls + 1
    /\ fw' = "initializing"
    /\ pc' = "in_run"
    /\ UNCHANGED << target_os, debug_assertions, plugins, setup_closure,
                    setup_registrations, setup_calls, setup_result,
                    register_all_calls, register_all_result, run_result,
                    events, panic_message >>

\* line 30: Builder::run returns Err before the setup closure is reached
RunFailsToStart ==
    /\ pc = "in_run"
    /\ fw = "initializing"
    /\ run_result' = "err_runtime"
    /\ fw' = "failed"
    /\ pc' = "L31"
    /\ UNCHANGED << target_os, debug_assertions, builder, plugins,
                    setup_closure, setup_registrations, setup_calls,
                    setup_result, register_all_calls, register_all_result,
                    run_calls, events, panic_message >>

\* lines 21, 30: the framework calls the closure given to setup(); it is an
\* FnOnce, so calling it consumes it.  A builder without a closure goes
\* straight to the run loop.
InvokeSetup ==
    /\ pc = "in_run"
    /\ fw = "initializing"
    /\ IF setup_closure = "registered"
       THEN /\ setup_closure' = "consumed"
            /\ setup_calls' = setup_calls + 1
            /\ fw' = "setup_L22"
       ELSE /\ fw' = "event_loop"
            /\ UNCHANGED << setup_closure, setup_calls >>
    /\ UNCHANGED << target_os, debug_assertions, pc, builder, plugins,
                    setup_registrations, setup_result, register_all_calls,
                    register_all_result, run_calls, run_result, events,
                    panic_message >>

\* lines 22-26, mutated: the closure also attaches a plugin through the app
\* handle, after the run call has started
RegisterAllBlock_attaches ==
    /\ pc = "in_run"
    /\ fw = "setup_L22"
    /\ plugins' = Append(plugins, "opener")
    /\ IF register_all_cfg(target_os, debug_assertions)
       THEN /\ register_all_calls' = register_all_calls + 1
            /\ \E r \in {"ok", "err"} : register_all_result' = r
       ELSE UNCHANGED << register_all_calls, register_all_result >>
    /\ fw' = "setup_L28"
    /\ UNCHANGED << target_os, debug_assertions, pc, builder, setup_closure,
                    setup_registrations, setup_calls, setup_result, run_calls,
                    run_result, events, panic_message >>

\* lines 22-26: in builds where the cfg holds, call register_all() once; it
\* may succeed or fail, and `let _ =` drops the Result
RegisterAllBlock ==
    /\ pc = "in_run"
    /\ fw = "setup_L22"
    /\ IF register_all_cfg(target_os, debug_assertions)
       THEN /\ register_all_calls' = register_all_calls + 1
            /\ \E r \in {"ok", "err"} : register_all_result' = r
       ELSE UNCHANGED << register_all_calls, register_all_result >>
    /\ fw' = "setup_L28"
    /\ UNCHANGED << target_os, debug_assertions, pc, builder, plugins,
                    setup_closure, setup_registrations, setup_calls,
                    setup_result, run_calls, run_result, events,
                    panic_message >>

\* line 28, mutated: the closure returns what register_all() returned
SetupReturnValue_propagates(reg) == IF reg = "err" THEN "err" ELSE "ok"

\* line 28: Ok(())
SetupReturnValue(reg) == "ok"

\* line 28: the closure returns to the framework
SetupReturn ==
    /\ pc = "in_run"
    /\ fw = "setup_L28"
    /\ setup_result' = SetupReturnValue(register_all_result)
    /\ fw' = "setup_returned"
    /\ UNCHANGED << target_os, debug_assertions, pc, builder, plugins,
                    setup_closure, setup_registrations, setup_calls,
                    register_all_calls, register_all_result, run_calls,
                    run_result, events, panic_message >>

\* lines 21, 30: the framework consumes the closure's Result.  An Err makes
\* Builder::run return a setup error; after an Ok the run loop starts, or
\* the framework fails for a reason of its own.
AfterSetup ==
    /\ pc = "in_run"
    /\ fw = "setup_returned"
    /\ IF setup_result = "err"
       THEN /\ run_result' = "err_setup"
            /\ fw' = "failed"
            /\ pc' = "L31"
       ELSE \E started \in BOOLEAN :
              IF started
              THEN /\ fw' = "event_loop"
                   /\ UNCHANGED << run_result, pc >>
              ELSE /\ run_result' = "err_runtime"
                   /\ fw' = "failed"
                   /\ pc' = "L31"
    /\ UNCHANGED << target_os, debug_assertions, builder, plugins,
                    setup_closure, setup_registrations, setup_calls,
                    setup_result, register_all_calls, register_all_result,
                    run_calls, events, panic_message >>

\* line 30: the run loop processes one event
ProcessEvent ==
    /\ pc = "in_run"
    /\ fw = "event_loop"
    /\ events < MaxEvents
    /\ events' = events + 1
    /\ UNCHANGED << target_os, debug_assertions, pc, builder, plugins,
                    setup_closure, setup_registrations, setup_calls,
                    setup_result, register_all_calls, register_all_result,
                    fw, run_calls, run_result, panic_message >>

\* line 30: the application shuts down and Builder::run returns Ok(())
Shutdown ==
    /\ pc = "in_run"
    /\ fw = "event_loop"
    /\ run_result' = "ok"
    /\ fw' = "exited"
    /\ pc' = "L31"
    /\ UNCHANGED << target_os, debug_assertions, builder, plugins,
                    setup_closure, setup_registrations, setup_calls,
                    setup_result, register_all_calls, register_all_result,
                    run_calls, events, panic_message >>

\* line 31, mutated: an Err sends run() back to the run call
expect_retries ==
    /\ pc = "L31"
    /\ IF run_result = "ok"
       THEN /\ pc' = "returned"
            /\ UNCHANGED panic_message
       ELSE /\ pc' = "L30"
            /\ UNCHANGED panic_message
    /\ UNCHANGED << target_os, debug_assertions, builder, plugins,
                    setup_closure, setup_registrations, setup_calls,
                    setup_result, register_all_calls, register_all_result,
                    fw, run_calls, run_result, events >>

\* line 31, mutated: the Result is dropped (.ok()) and run() returns
expect_ignores ==
    /\ pc = "L31"
    /\ pc' = "returned"
    /\ UNCHANGED << target_os, debug_assertions, builder, plugins,
                    setup_closure, setup_registrations, setup_calls,
                    setup_result, register_all_calls, register_all_result,
                    fw, run_calls, run_result, events, panic_message >>

\* line 31: .expect("error while running tauri application"): Ok(()) lets
\* run() return, an Err panics with the message
expect ==
    /\ pc = "L31"
    /\ IF run_result = "ok"
       THEN /\ pc' = "returned"
            /\ UNCHANGED panic_message
       ELSE /\ pc' = "panicked"
            /\ panic_message' = ExpectMessage
    /\ UNCHANGED << target_os, debug_assertions, builder, plugins,
                    setup_closure, setup_registrations, setup_calls,
                    setup_result, register_all_calls, register_all_result,
                    fw, run_calls, run_result, events >>

----------------------------------------------------------------------------
(* Specifications *)

Next ==
    \/ BuilderDefault
    \/ PluginStore
    \/ PluginNotification
    \/ PluginDeepLink
    \/ PluginHttp
    \/ PluginOs
    \/ DesktopBlock
    \/ MobileBlock
    \/ setup
    \/ run
    \/ RunFailsToStart
    \/ InvokeSetup
    \/ RegisterAllBlock
    \/ SetupReturn
    \/ AfterSetup
    \/ ProcessEvent
    \/ Shutdown
    \/ expect

Spec == Init /\ [][Next]_vars

\* run() is straight-line code on one thread: once Builder::run has returned,
\* expect() executes
FairSpec == Spec /\ WF_vars(expect)

----------------------------------------------------------------------------
(* Properties *)

BaselinePlugins == {"store", "notification", "deep-link", "http", "os"}

\* the plugin set a build target is specified to end up with
ExpectedPlugins(os) ==
    BaselinePlugins \cup
        (IF os \in {"android", "ios"} THEN {"barcode-scanner"} ELSE {"opener"})

\* the builds on which register_all() is specified to be invoked
ExpectedRegisterAll(os, dbg) == os = "linux" \/ (os = "windows" /\ dbg)

RunEntered == run_calls >= 1

InSetup == fw \in {"setup_L22", "setup_L28"}

\* C1: on every build target, once run() has invoked Builder::run the
\* attached plugins include store, notification, deep-link, http and os.
C1_BaselineAttached ==
    RunEntered => BaselinePlugins \subseteq Range(plugins)

C1_Witness ==
    /\ pc = "in_run"
    /\ fw = "initializing"
    /\ target_os = "ios"
    /\ ~debug_assertions
    /\ BaselinePlugins \subseteq Range(plugins)

\* C2: on a desktop target (neither android nor ios), once Builder::run has
\* been invoked the attached plugins include opener and exclude
\* barcode-scanner.
C2_DesktopPlugins ==
    (RunEntered /\ target_os \notin {"android", "ios"})
        => /\ "opener" \in Range(plugins)
           /\ "barcode-scanner" \notin Range(plugins)

C2_Witness ==
    /\ RunEntered
    /\ target_os = "linux"
    /\ debug_assertions
    /\ Range(plugins) = BaselinePlugins \cup {"opener"}
    /\ register_all_calls = 1

\* C3: on a mobile target (android or ios), once Builder::run has been
\* invoked the attached plugins include barcode-scanner and exclude opener.
C3_MobilePlugins ==
    (RunEntered /\ target_os \in {"android", "ios"})
        => /\ "barcode-scanner" \in Range(plugins)
           /\ "opener" \notin Range(plugins)

C3_Witness ==
    /\ RunEntered
    /\ target_os = "ios"
    /\ Range(plugins) = BaselinePlugins \cup {"barcode-scanner"}
    /\ fw = "event_loop"
    /\ register_all_calls = 0

\* C4: register_all() is never invoked before the setup closure runs nor
\* more than once, and once the closure has passed its cfg block it has been
\* invoked exactly once on Linux and on debug Windows builds and not at all
\* on every other build.
C4_RegisterAllCount ==
    /\ register_all_calls <= 1
    /\ setup_calls = 0 => register_all_calls = 0
    /\ (setup_calls >= 1 /\ fw # "setup_L22")
          => register_all_calls =
                IF ExpectedRegisterAll(target_os, debug_assertions)
                THEN 1 ELSE 0

C4_Witness ==
    /\ setup_result = "ok"
    /\ target_os = "windows"
    /\ debug_assertions
    /\ register_all_calls = 1

C4_WitnessNone ==
    /\ setup_result = "ok"
    /\ target_os = "windows"
    /\ ~debug_assertions
    /\ register_all_calls = 0

\* C5: the setup closure returns "ok" whatever register_all() returned, and
\* Builder::run never fails with a setup error; after a failed register_all()
\* the run loop can still be entered.
C5_SetupAlwaysOk ==
    /\ setup_result \in {"none", "ok"}
    /\ run_result # "err_setup"
    /\ (fw = "setup_returned" /\ register_all_result = "err")
          => ENABLED (AfterSetup /\ fw' = "event_loop")

C5_Witness ==
    /\ register_all_result = "err"
    /\ setup_result = "ok"
    /\ fw = "event_loop"
    /\ events > 0

\* C6: when Builder::run has returned an error, run() ends by panicking with
\* the fixed message: it does not return, and the step after the failed call
\* is the panic, never a second run call or another path.
C6_RunFailureIsFatal ==
    /\ [](pc = "returned" => run_result = "ok")
    /\ [](pc = "panicked" => panic_message = ExpectMessage)
    /\ [](run_calls <= 1)
    /\ [][(pc = "L31" /\ run_result # "ok")
             => (pc' = "panicked" /\ panic_message' = ExpectMessage)]_vars
    /\ ((pc = "L31" /\ run_result # "ok") ~> (pc = "panicked"))

C6_Witness ==
    /\ pc = "panicked"
    /\ run_result = "err_runtime"
    /\ panic_message = ExpectMessage
    /\ setup_calls = 0

\* C7: once Builder::run has been invoked the attached plugin list never
\* changes, and every plugin was attached while the run call had not started.
C7_NoAttachAfterRun ==
    [][(plugins' # plugins) => (run_calls = 0 /\ run_calls' = 0)]_vars

C7_Witness ==
    /\ RunEntered
    /\ Len(plugins) = 6
    /\ fw = "exited"

\* C8: run() stops in exactly two ways: returned, after Builder::run gave
\* Ok(()) on shutdown, or panicked, after Builder::run gave an error.  Every
\* state with no further step is one of the two.
C8_TwoOutcomes ==
    /\ pc = "returned" => (run_result = "ok" /\ fw = "exited")
    /\ pc = "panicked" => (run_result \in {"err_setup", "err_runtime"}
                            /\ fw = "failed")
    /\ (~ENABLED Next) => pc \in {"returned", "panicked"}
    /\ pc \in {"returned", "panicked"} => ~ENABLED Next

C8_Witness ==
    /\ pc = "returned"
    /\ run_result = "ok"
    /\ events = MaxEvents

C8_WitnessPanicked ==
    /\ pc = "panicked"
    /\ fw = "failed"
    /\ setup_result = "ok"

\* C9: the setup closure is registered exactly once before the run call, it
\* is entered at most once, while it runs every plugin of the build target
\* is attached and no event has been processed, and events are processed
\* only after it has returned.
C9_SetupOnceBeforeLoop ==
    /\ setup_registrations <= 1
    /\ RunEntered => setup_registrations = 1
    /\ setup_calls <= 1
    /\ InSetup => /\ Range(plugins) = ExpectedPlugins(target_os)
                  /\ Len(plugins) = 6
                  /\ RunEntered
                  /\ events = 0
    /\ (fw = "event_loop" \/ events > 0)
          => (setup_calls = 1 /\ setup_result = "ok")

C9_Witness ==
    /\ fw = "event_loop"
    /\ events = 1
    /\ setup_calls = 1
    /\ setup_closure = "consumed"

\* C10: whenever register_all() has been invoked, the deep-link plugin is
\* among the attached plugins.
C10_DeepLinkAttachedBeforeRegisterAll ==
    register_all_calls > 0 => "deep-link" \in Range(plugins)

C10_Witness ==
    /\ register_all_calls = 1
    /\ fw = "setup_L28"
    /\ "deep-link" \in Range(plugins)

====
